---- MODULE Spec2Model ----
(***************************************************************************)
(* Model of toolkit/gtfs/scenario.py: main() builds a ONE scenario from a  *)
(* GTFS feed, with route geometry taken either from the feed's shapes or   *)
(* from an OpenStreetMap extract.  One run of main() is one behaviour; pc  *)
(* is the position of main() in its own text.  The collaborators imported  *)
(* from lib/ (GTFSReader, OsmRouteParser, Projector, writer, HostGroup,    *)
(* ScenarioSettings) are modelled by their contracts.                      *)
(***************************************************************************)
EXTENDS Integers, Sequences, FiniteSets

VARIABLES
    gtfs_file,      \* args.gtfs_file, a string (sequence of characters)
    osm,            \* args.osm: [given, readable, routes] - whether the option is
                    \* given, whether open() succeeds on it, what it parses to
    feed,           \* the feed on disk: [hasShapes, routes]
    out_dir_state,  \* what is at out_dir before the run: "dir", "absent" or "blocked"
    pc,             \* position of main()
    scenario,       \* scenario name (line 57)
    with_shapes,    \* line 59
    gtfs,           \* the GTFSReader: [loaded, shapes, refTrips, calls]
    routes,         \* the route set (lines 65-68)
    modes,          \* which of osm_routes / shape_routes have run
    schedule,       \* line 71, route name -> schedule
    durations,      \* line 72, route name -> duration table
    timed,          \* TRUE once lines 71-72 have run
    points,         \* line 74
    i,              \* loop index of the two `for r in routes` loops
    proj,           \* the Projector: [fits, fittedOn, minx, miny]
    dims,           \* (width, height) of line 81
    dirCreated,     \* os.mkdir(out_dir) was called
    groups,         \* host groups added to the ScenarioSettings
    entries,        \* settings set after complete_groups()
    stations,       \* line 99
    writes,         \* log of the writer calls, in order
    xforms          \* log of the transform_coords calls

vars == <<gtfs_file, osm, feed, out_dir_state, pc, scenario, with_shapes, gtfs,
          routes, modes, schedule, durations, timed, points, i, proj, dims,
          dirCreated, groups, entries, stations, writes, xforms>>

inputs == <<gtfs_file, osm, feed, out_dir_state>>

----------------------------------------------------------------------------
(* Bounds and input catalogues *)

MaxOsmRoutes == 2

Range(s) == {s[k] : k \in DOMAIN s}

\* Route names of the feed, in the order the feed lists them, and the
\* route names of a map extract: "s" is a name only the extract has.
NameList == << <<"1">>, <<"1", "2">> >>
Names == Range(NameList) \cup { <<"s">> }

\* Route geometries: nodes (ordered polyline) and stops (a subsequence of it).
\* Geometry 1 and 3 share endpoints but differ in stop count; 1 and 2 share
\* the stop (2,0); the stops (2,0) and (2,1) of geometry 2 round to one point.
Geoms == <<
    [nodes |-> << <<0, 0>>, <<1, 0>>, <<2, 0>> >>, stops |-> << <<0, 0>>, <<2, 0>> >>],
    [nodes |-> << <<2, 0>>, <<2, 1>>, <<2, 3>> >>, stops |-> << <<2, 0>>, <<2, 1>>, <<2, 3>> >>],
    [nodes |-> << <<0, 0>>, <<1, 0>>, <<2, 0>> >>, stops |-> << <<0, 0>>, <<1, 0>>, <<2, 0>> >>]
>>

\* args.gtfs_file: a plain feed name, one with a single brace, and one with
\* doubled braces
GtfsFiles == { <<"d", "/", "f", ".", "z">>,
               <<"a", "{", "b", ".", "z">>,
               <<"c", "{", "{", "}", "}", ".", "z">> }

\* What can be at out_dir: a directory, nothing (its parent exists), or
\* something os.mkdir fails on (a non-directory of that name, or no parent)
OutDirStates == {"dir", "absent", "blocked"}

----------------------------------------------------------------------------
(* lib.commons.TransitRoute *)

TransitRoute(name, nodes, stops) == [name |-> name, nodes |-> nodes, stops |-> stops]
First(r) == r.stops[1]
Last(r) == r.stops[Len(r.stops)]

\* dict.get(key): the value, or None.  Every value stored is a sequence.
Some(v) == [present |-> TRUE, val |-> v]
NoValue == [present |-> FALSE, val |-> <<>>]
Get(d, key) == IF key \in DOMAIN d THEN Some(d[key]) ELSE NoValue

----------------------------------------------------------------------------
(* Strings: file names and paths are sequences of characters.            *)

DATA_DIR == <<"d", "a", "t", "a">>
NODES_FILE == <<"{", "}", "_", "n", "o", "d", "e", "s", ".", "w", "k", "t">>
\* Mutant: the stops template is a copy of the nodes template
STOPS_FILE_AsNodes == <<"{", "}", "_", "n", "o", "d", "e", "s", ".", "w", "k", "t">>
STOPS_FILE == <<"{", "}", "_", "s", "t", "o", "p", "s", ".", "c", "s", "v">>
SCHEDULE_FILE == <<"{", "}", "_", "s", "c", "h", "e", "d", "u", "l", "e", ".", "c", "s", "v">>
STATIONS_FILE == <<"s", "t", "a", "t", "i", "o", "n", "s", ".", "w", "k", "t">>
SETTINGS_FILE == <<"{", "s", "c", "e", "n", "a", "r", "i", "o", "}",
                   "_", "s", "e", "t", "t", "i", "n", "g", "s", ".", "t", "x", "t">>
NR_OF_HOSTS == 1
HOST_ID_DELIM == <<"_">>
Precision == 2

\* str.format(*pos, **kw) on the template t.  The whole template is parsed:
\* "{{" and "}}" are literal braces, "{...}" is a replacement field, any
\* other brace raises.  A field name is empty (automatic numbering), a
\* number (manual numbering; the two cannot be mixed) or a keyword; a
\* missing argument raises.  Of conversions and format specifications, !s,
\* !r, !a, the empty specification and "s" are modelled; an attribute or
\* index lookup, or any other specification, is taken to raise.
Raised == [ok |-> FALSE, val |-> <<>>]
Digits == <<"0", "1", "2", "3", "4", "5", "6", "7", "8", "9">>
IsDigits(w) == w # <<>> /\ \A k \in DOMAIN w : w[k] \in Range(Digits)
DigitVal(c) == (CHOOSE d \in DOMAIN Digits : Digits[d] = c) - 1
RECURSIVE ToInt(_)
ToInt(w) == IF w = <<>> THEN 0 ELSE 10 * ToInt(SubSeq(w, 1, Len(w) - 1)) + DigitVal(w[Len(w)])
FirstIndex(w, from, cs) ==
    IF \E k \in from..Len(w) : w[k] \in cs
    THEN CHOOSE k \in from..Len(w) : w[k] \in cs /\ \A m \in from..(k - 1) : w[m] \notin cs
    ELSE 0

\* One replacement field: [ok, val, mode, n] with the numbering mode after it
FormatField(content, pos, kw, mode, n) ==
    LET cut == FirstIndex(content, 1, {"!", ":"})
        fname == IF cut = 0 THEN content ELSE SubSeq(content, 1, cut - 1)
        rest == IF cut = 0 THEN <<>> ELSE SubSeq(content, cut, Len(content))
        plain == rest \in {<<>>, <<"!", "s">>, <<":">>, <<":", "s">>,
                          <<"!", "s", ":">>, <<"!", "s", ":", "s">>}
        quoted == rest \in {<<"!", "r">>, <<"!", "a">>, <<"!", "r", ":">>, <<"!", "a", ":">>}
        Conv(v) == IF quoted THEN <<"'">> \o v \o <<"'">> ELSE v
        bad == [ok |-> FALSE, val |-> <<>>, mode |-> mode, n |-> n]
    IN  IF ~(plain \/ quoted) \/ FirstIndex(fname, 1, {".", "["}) # 0 THEN bad
        ELSE IF fname = <<>> THEN
            IF mode = "manual" \/ n + 1 > Len(pos) THEN bad
            ELSE [ok |-> TRUE, val |-> Conv(pos[n + 1]), mode |-> "auto", n |-> n + 1]
        ELSE IF IsDigits(fname) THEN
            IF mode = "auto" \/ ToInt(fname) + 1 > Len(pos) THEN bad
            ELSE [ok |-> TRUE, val |-> Conv(pos[ToInt(fname) + 1]), mode |-> "manual", n |-> n]
        ELSE IF \E e \in kw : e[1] = fname
             THEN [ok |-> TRUE, val |-> Conv((CHOOSE e \in kw : e[1] = fname)[2]),
                   mode |-> mode, n |-> n]
             ELSE bad

RECURSIVE FormatFrom(_, _, _, _, _, _, _)
FormatFrom(t, k, pos, kw, mode, n, out) ==
    IF k > Len(t) THEN [ok |-> TRUE, val |-> out]
    ELSE IF t[k] = "{" THEN
        IF k < Len(t) /\ t[k + 1] = "{"
        THEN FormatFrom(t, k + 2, pos, kw, mode, n, Append(out, "{"))
        ELSE LET j == FirstIndex(t, k + 1, {"}"})
                 content == SubSeq(t, k + 1, j - 1)
                 f == FormatField(content, pos, kw, mode, n)
             IN  IF j = 0 \/ FirstIndex(content, 1, {"{"}) # 0 \/ ~f.ok THEN Raised
                 ELSE FormatFrom(t, j + 1, pos, kw, f.mode, f.n, out \o f.val)
    ELSE IF t[k] = "}" THEN
        IF k < Len(t) /\ t[k + 1] = "}"
        THEN FormatFrom(t, k + 2, pos, kw, mode, n, Append(out, "}"))
        ELSE Raised
    ELSE FormatFrom(t, k + 1, pos, kw, mode, n, Append(out, t[k]))

\* template.format(name): [ok, val]
Format(t, name) == FormatFrom(t, 1, <<name>>, {}, "none", 0, <<>>)
\* template.format(scenario=scen): [ok, val]
FormatScenario(t, scen) ==
    FormatFrom(t, 1, <<>>, {<<<<"s", "c", "e", "n", "a", "r", "i", "o">>, scen>>},
               "none", 0, <<>>)

\* os.path.join(a, b)
Join(a, b) ==
    IF b # <<>> /\ b[1] = "/" THEN b
    ELSE IF a = <<>> \/ a[Len(a)] = "/" THEN a \o b
    ELSE a \o <<"/">> \o b

LastIndex(s, c) ==
    IF \E k \in DOMAIN s : s[k] = c
    THEN CHOOSE k \in DOMAIN s : s[k] = c /\ \A m \in DOMAIN s : s[m] = c => m <= k
    ELSE 0

\* os.path.basename, os.path.splitext(...)[0]
Basename(s) == SubSeq(s, LastIndex(s, "/") + 1, Len(s))
SplitextRoot(b) ==
    LET d == LastIndex(b, ".")
    IN  IF d > 0 /\ \E k \in 1..(d - 1) : b[k] # "." THEN SubSeq(b, 1, d - 1) ELSE b
basename_without_ext(file) == SplitextRoot(Basename(file))

\* Path.cwd().parent.parent, the ONE project root
OneDir == <<"~">>
OutDir(scen) == Join(Join(OneDir, DATA_DIR), scen)

----------------------------------------------------------------------------
(* lib.gtfs.GTFSReader and lib.osm.OsmRouteParser, by their contracts *)

\* A feed route's matching key: (name, first stop, last stop, stop count)
RefKey(r) == <<r.name, First(r), Last(r), Len(r.stops)>>

\* GTFSReader.load_feed: shape data is kept only if asked for and present
LoadedFeed(withShapes) ==
    [loaded |-> TRUE, withShapes |-> withShapes,
     shapes |-> withShapes /\ feed.hasShapes, refTrips |-> {}]

\* GTFSReader.set_ref_trips: the feed routes that one of the references
\* matches in name, both endpoints and stop count
SetRefTrips(ref_routes) ==
    {fr.name : fr \in {f \in Range(feed.routes) : RefKey(f) \in Range(ref_routes)}}

\* GTFSReader.build_ref_trips: every route of the feed
BuildRefTrips == {fr.name : fr \in Range(feed.routes)}

\* GTFSReader.route_names, shape_paths, shape_stops
RouteNames == [k \in DOMAIN feed.routes |-> feed.routes[k].name]
FeedRoute(name) == CHOOSE fr \in Range(feed.routes) : fr.name = name
ShapeNames == IF gtfs.shapes THEN {fr.name : fr \in Range(feed.routes)} ELSE {}
ShapePaths == [n \in ShapeNames |-> FeedRoute(n).nodes]
ShapeStops == [n \in ShapeNames |-> FeedRoute(n).stops]

\* One departure per reference trip: (start time, start stop, end stop, direction)
FeedSchedule(fr) == << <<0, First(fr), Last(fr), 0>> >>
Abs(v) == IF v < 0 THEN -v ELSE v
\* One elapsed time per consecutive stop pair of the trip
FeedDurations(fr) ==
    [k \in 1..(Len(fr.stops) - 1) |->
        Abs(fr.stops[k + 1][1] - fr.stops[k][1]) + Abs(fr.stops[k + 1][2] - fr.stops[k][2])]

\* GTFSReader.schedule and trip_durations: per route with a reference trip
Schedule == [n \in gtfs.refTrips |-> FeedSchedule(FeedRoute(n))]
TripDurations == [n \in gtfs.refTrips |-> FeedDurations(FeedRoute(n))]

----------------------------------------------------------------------------
(* lib.project.Projector, by its contract: the frame moves the minimum     *)
(* corner of the fitted points to (0,0); output is rounded.  Geographic    *)
(* coordinates are counted in halves of the output resolution.             *)

Min(S) == CHOOSE v \in S : \A w \in S : v <= w
Max(S) == CHOOSE v \in S : \A w \in S : w <= v
Round(v) == (v + 1) \div 2

NewProjector == [precision |-> Precision, fits |-> 0, fittedOn |-> {}, minx |-> 0, miny |-> 0]
\* Projector.init_dimensions on a non-empty point set
Fitted(p, pts) ==
    [precision |-> p.precision, fits |-> p.fits + 1, fittedOn |-> pts,
     minx |-> Min({q[1] : q \in pts}), miny |-> Min({q[2] : q \in pts})]
\* an init_dimensions call that raises on an empty point set
FitRaised(p, pts) == [p EXCEPT !.fits = p.fits + 1, !.fittedOn = pts]
transform_point(p, q) == <<Round(q[1] - p.minx), Round(q[2] - p.miny)>>
transform_coords(p, coords) == [k \in DOMAIN coords |-> transform_point(p, coords[k])]
\* math.ceil of a length counted in steps of the output resolution, of
\* which 10^precision make one unit
Ceil(v) == (v + 10 ^ Precision - 1) \div (10 ^ Precision)
Dimensions(p, pts) ==
    <<Max({transform_point(p, q)[1] : q \in pts}), Max({transform_point(p, q)[2] : q \in pts})>>

----------------------------------------------------------------------------
(* The inputs of a run *)

DistinctNames(rs) == \A a, b \in DOMAIN rs : a # b => rs[a].name # rs[b].name

\* What OsmRouteParser.parse_routes can return: up to MaxOsmRoutes routes
OsmRouteLists ==
    LET Raw == UNION {[1..n -> Names \X DOMAIN Geoms] : n \in 0..MaxOsmRoutes}
        Mk(raw) == [k \in DOMAIN raw |->
                       TransitRoute(raw[k][1], Geoms[raw[k][2]].nodes, Geoms[raw[k][2]].stops)]
    IN  {rs \in {Mk(raw) : raw \in Raw} : DistinctNames(rs)}

\* The routes of a feed, in NameList order: each name is absent (0) or has
\* the stops (and, if the feed has shapes, the path) of one geometry
FeedRouteLists ==
    LET Mk(pick) ==
            LET present == SelectSeq([k \in DOMAIN NameList |-> k], LAMBDA k : pick[k] # 0)
            IN  [k \in DOMAIN present |->
                    TransitRoute(NameList[present[k]], Geoms[pick[present[k]]].nodes,
                                 Geoms[pick[present[k]]].stops)]
    IN  {Mk(pick) : pick \in [DOMAIN NameList -> {0} \cup DOMAIN Geoms]}

Init ==
    /\ gtfs_file \in GtfsFiles
    /\ osm \in {[given |-> FALSE, readable |-> FALSE, routes |-> <<>>],
                [given |-> TRUE, readable |-> FALSE, routes |-> <<>>]}
               \cup {[given |-> TRUE, readable |-> TRUE, routes |-> rs] : rs \in OsmRouteLists}
    /\ feed \in [hasShapes : BOOLEAN, routes : FeedRouteLists]
    /\ out_dir_state \in OutDirStates
    /\ pc = "start"
    /\ scenario = <<>>
    /\ with_shapes = FALSE
    /\ gtfs = [loaded |-> FALSE, withShapes |-> FALSE, shapes |-> FALSE, refTrips |-> {}]
    /\ routes = <<>>
    /\ modes = {}
    /\ schedule = <<>>
    /\ durations = <<>>
    /\ timed = FALSE
    /\ points = {}
    /\ i = 1
    /\ proj = NewProjector
    /\ dims = <<0, 0>>
    /\ dirCreated = FALSE
    /\ groups = <<>>
    /\ entries = <<>>
    /\ stations = {}
    /\ writes = <<>>
    /\ xforms = {}

----------------------------------------------------------------------------
(* main() *)

\* Mutant: the routes are transformed and written before the frame is fitted
NextPcFitLate(p) ==
    CASE p = "start" -> "geometry"
      [] p = "geometry" -> "schedule"
      [] p = "schedule" -> "collect"
      [] p = "collect" -> "mkdir"
      [] p = "mkdir" -> "routes"
      [] p = "routes" -> "fit"
      [] p = "fit" -> "stations"
      [] p = "stations" -> "settings"
      [] p = "settings" -> "done"

\* Mutant: the scenario directory is made before the frame is fitted
NextPcMkdirFirst(p) ==
    CASE p = "start" -> "geometry"
      [] p = "geometry" -> "schedule"
      [] p = "schedule" -> "collect"
      [] p = "collect" -> "mkdir"
      [] p = "mkdir" -> "fit"
      [] p = "fit" -> "routes"
      [] p = "routes" -> "stations"
      [] p = "stations" -> "settings"
      [] p = "settings" -> "done"

\* Mutant: the schedule is built before the route geometry is resolved
NextPcScheduleFirst(p) ==
    CASE p = "start" -> "schedule"
      [] p = "schedule" -> "geometry"
      [] p = "geometry" -> "collect"
      [] p = "collect" -> "fit"
      [] p = "fit" -> "mkdir"
      [] p = "mkdir" -> "routes"
      [] p = "routes" -> "stations"
      [] p = "stations" -> "settings"
      [] p = "settings" -> "done"

\* The statements of main() in program order
NextPc(p) ==
    CASE p = "start" -> "geometry"
      [] p = "geometry" -> "schedule"
      [] p = "schedule" -> "collect"
      [] p = "collect" -> "fit"
      [] p = "fit" -> "mkdir"
      [] p = "mkdir" -> "routes"
      [] p = "routes" -> "stations"
      [] p = "stations" -> "settings"
      [] p = "settings" -> "done"

\* Mutant: the feed is always loaded with its shapes
WithShapesAlways == TRUE
\* line 59
WithShapes == ~osm.given

\* lines 57-63: scenario name, with_shapes, load the feed
LoadFeed ==
    /\ pc = "start"
    /\ scenario' = basename_without_ext(gtfs_file)
    /\ with_shapes' = WithShapes
    /\ gtfs' = LoadedFeed(with_shapes')
    /\ pc' = NextPc(pc)
    /\ UNCHANGED <<inputs, routes, modes, schedule, durations, timed, points, i, proj,
                   dims, dirCreated, groups, entries, stations, writes, xforms>>

RefRoutes(rs) == [k \in DOMAIN rs |-> <<rs[k].name, First(rs[k]), Last(rs[k]), Len(rs[k].stops)>>]

\* osm_routes(gtfs, args.osm): open() raises on a missing or unreadable
\* file (line 28); otherwise every parsed route is returned
OsmRoutes ==
    /\ pc = "geometry"
    /\ osm.given
    /\ modes' = modes \cup {"osm"}
    /\ IF osm.readable
       THEN /\ gtfs' = [gtfs EXCEPT !.refTrips = SetRefTrips(RefRoutes(osm.routes))]
            /\ routes' = osm.routes
            /\ pc' = NextPc(pc)
       ELSE /\ UNCHANGED <<gtfs, routes>>
            /\ pc' = "failed"
    /\ UNCHANGED <<inputs, scenario, with_shapes, schedule, durations, timed, points, i,
                   proj, dims, dirCreated, groups, entries, stations, writes, xforms>>

\* shape_routes(gtfs): one route per route name; paths[r] raises KeyError
\* for a name without a shape
ShapeRoutes ==
    /\ pc = "geometry"
    /\ ~osm.given
    /\ gtfs' = [gtfs EXCEPT !.refTrips = BuildRefTrips]
    /\ modes' = modes \cup {"native"}
    /\ IF \A k \in DOMAIN RouteNames : RouteNames[k] \in DOMAIN ShapePaths
       THEN /\ routes' = [k \in DOMAIN RouteNames |->
                            TransitRoute(RouteNames[k], ShapePaths[RouteNames[k]],
                                         ShapeStops[RouteNames[k]])]
            /\ pc' = NextPc(pc)
       ELSE /\ routes' = routes
            /\ pc' = "failed"
    /\ UNCHANGED <<inputs, scenario, with_shapes, schedule, durations, timed, points, i,
                   proj, dims, dirCreated, groups, entries, stations, writes, xforms>>

\* lines 70-74: schedule, durations, points = set()
BuildSchedule ==
    /\ pc = "schedule"
    /\ schedule' = Schedule
    /\ durations' = TripDurations
    /\ timed' = TRUE
    /\ points' = {}
    /\ i' = 1
    /\ pc' = NextPc(pc)
    /\ UNCHANGED <<inputs, scenario, with_shapes, gtfs, routes, modes, proj, dims,
                   dirCreated, groups, entries, stations, writes, xforms>>

\* `for r in routes` has another route to visit
HasNext == i <= Len(routes)

\* Mutant: only the two ends of the route's path are collected
RoutePointsEnds(r) == {r.nodes[1], r.nodes[Len(r.nodes)]}
\* line 76: the points a route contributes to the fit
RoutePoints(r) == Range(r.nodes)

\* lines 75-76: one iteration, or the end of the loop
CollectPoints ==
    /\ pc = "collect"
    /\ IF HasNext
       THEN /\ points' = points \cup RoutePoints(routes[i])
            /\ i' = i + 1
            /\ pc' = pc
       ELSE /\ points' = points
            /\ i' = 1
            /\ pc' = NextPc(pc)
    /\ UNCHANGED <<inputs, scenario, with_shapes, gtfs, routes, modes, schedule, durations,
                   timed, proj, dims, dirCreated, groups, entries, stations, writes, xforms>>

\* lines 80-81: proj = Projector(precision=2); proj.init_dimensions(points)
InitDimensions ==
    /\ pc = "fit"
    /\ IF points = {}
       THEN /\ proj' = FitRaised(proj, points)
            /\ dims' = dims
            /\ pc' = "failed"
       ELSE /\ proj' = Fitted(proj, points)
            /\ dims' = Dimensions(proj', points)
            /\ pc' = NextPc(pc)
    /\ UNCHANGED <<inputs, scenario, with_shapes, gtfs, routes, modes, schedule, durations,
                   timed, points, i, dirCreated, groups, entries, stations, writes, xforms>>

\* lines 85-99: make the scenario directory, start the settings
MakeDir ==
    /\ pc = "mkdir"
    /\ IF out_dir_state = "blocked"
       THEN \* os.mkdir raises: a non-directory is in the way, or no parent
            /\ dirCreated' = dirCreated
            /\ pc' = "failed"
       ELSE /\ dirCreated' = (out_dir_state = "absent")
            /\ pc' = NextPc(pc)
    /\ groups' = <<>>
    /\ stations' = {}
    /\ i' = 1
    /\ UNCHANGED <<inputs, scenario, with_shapes, gtfs, routes, modes, schedule, durations,
                   timed, points, proj, dims, entries, writes, xforms>>

\* lines 92-95: the file name templates inside the scenario directory
nodes_file == Join(OutDir(scenario), NODES_FILE)
stops_file == Join(OutDir(scenario), STOPS_FILE)
schedule_file == Join(OutDir(scenario), SCHEDULE_FILE)
stations_file == Join(OutDir(scenario), STATIONS_FILE)
settings_file == Join(OneDir, FormatScenario(SETTINGS_FILE, scenario).val)

\* One call of a writer: what was written where, for which route (0: shared)
Written(kind, file, route, coords, durs, sched, pts) ==
    [kind |-> kind, file |-> file, route |-> route, coords |-> coords,
     durations |-> durs, schedule |-> sched, points |-> pts]

\* lines 113-119: the host group of a route
RouteGroup(name) ==
    [id |-> name, delim |-> HOST_ID_DELIM, movementModel |-> "TransitMapMovement",
     routeFile |-> Format(stops_file, name).val,
     scheduleFile |-> Format(schedule_file, name).val,
     routeType |-> 2, nrofHosts |-> NR_OF_HOSTS, okmap |-> Format(nodes_file, name).val,
     pointFile |-> <<>>, stationarySystemNr |-> 0]

\* lines 150-154: the group of the stationary hosts
StationGroup ==
    [id |-> <<"S">>, delim |-> <<>>, movementModel |-> "StationaryMultiPointMovement",
     routeFile |-> <<>>, scheduleFile |-> <<>>, routeType |-> 0,
     nrofHosts |-> Cardinality(stations), okmap |-> <<>>,
     pointFile |-> stations_file, stationarySystemNr |-> 1]

\* lines 101-144: one iteration of the writing loop, or its end
WriteRoute ==
    /\ pc = "routes"
    /\ IF HasNext
       THEN LET r == routes[i]
                nodes == transform_coords(proj, r.nodes)
                stops == transform_coords(proj, r.stops)
                name == r.name
            IN  /\ xforms' = xforms \cup
                       {[route |-> i, what |-> "nodes", fits |-> proj.fits,
                         frame |-> <<proj.minx, proj.miny>>],
                        [route |-> i, what |-> "stops", fits |-> proj.fits,
                         frame |-> <<proj.minx, proj.miny>>]}
                /\ stations' = stations \cup Range(stops)
                /\ IF Format(stops_file, name).ok /\ Format(schedule_file, name).ok
                      /\ Format(nodes_file, name).ok
                   THEN /\ groups' = Append(groups, RouteGroup(name))
                        /\ writes' = writes \o
                               << Written("nodes", Format(nodes_file, name).val, i, nodes,
                                          NoValue, NoValue, {}),
                                  Written("stops", Format(stops_file, name).val, i, stops,
                                          Get(durations, r.name), NoValue, {}),
                                  Written("schedule", Format(schedule_file, name).val, i,
                                          <<>>, NoValue, Get(schedule, r.name), {}) >>
                        /\ i' = i + 1
                        /\ pc' = pc
                   ELSE \* str.format raises at line 115, 116 or 119
                        /\ UNCHANGED <<groups, writes, i>>
                        /\ pc' = "failed"
       ELSE /\ UNCHANGED <<xforms, stations, groups, writes>>
            /\ i' = 1
            /\ pc' = NextPc(pc)
    /\ UNCHANGED <<inputs, scenario, with_shapes, gtfs, routes, modes, schedule, durations,
                   timed, points, proj, dims, dirCreated, entries>>

\* lines 149-155: the stations file and the station group
WriteStations ==
    /\ pc = "stations"
    /\ writes' = Append(writes, Written("stations", stations_file, 0, <<>>,
                                        NoValue, NoValue, stations))
    /\ groups' = Append(groups, StationGroup)
    /\ pc' = NextPc(pc)
    /\ UNCHANGED <<inputs, scenario, with_shapes, gtfs, routes, modes, schedule, durations,
                   timed, points, i, proj, dims, dirCreated, entries, stations, xforms>>

\* Mutant: the address range is one too long
HostsMaxOffByOne == Len(routes) * NR_OF_HOSTS + Cardinality(stations)
\* line 169: the highest host address
HostsMax == Len(routes) * NR_OF_HOSTS + Cardinality(stations) - 1

\* ScenarioSettings.complete_groups: the options of every group added go
\* into the settings contents
CompleteGroups == [k \in DOMAIN groups |-> <<"Group", k, groups[k].nrofHosts>>]

\* lines 158-175: world size, host address range, write the settings
WriteSettings ==
    /\ pc = "settings"
    /\ entries' = CompleteGroups \o
                    << <<"MovementModel.worldSize", Ceil(dims[1]), Ceil(dims[2])>>,
                       <<"Events1.hosts", 0, HostsMax>> >>
    /\ writes' = Append(writes, Written("settings", settings_file, 0, <<>>,
                                        NoValue, NoValue, {}))
    /\ pc' = NextPc(pc)
    /\ UNCHANGED <<inputs, scenario, with_shapes, gtfs, routes, modes, schedule, durations,
                   timed, points, i, proj, dims, dirCreated, groups, stations, xforms>>

Next ==
    \/ LoadFeed
    \/ OsmRoutes
    \/ ShapeRoutes
    \/ BuildSchedule
    \/ CollectPoints
    \/ InitDimensions
    \/ MakeDir
    \/ WriteRoute
    \/ WriteStations
    \/ WriteSettings

Spec == Init /\ [][Next]_vars

----------------------------------------------------------------------------
(* Properties *)

AllNodes == UNION {Range(routes[k].nodes) : k \in DOMAIN routes}
AllStops == UNION {Range(routes[k].stops) : k \in DOMAIN routes}
Finished == pc = "done"

\* C1: the projection frame is fitted at most once, and exactly once in a run
\* that completes; the fit sees the points of every route of the route set;
\* every transform_coords call happens after that fit and uses its frame.
C1_FitOnceBeforeTransforms ==
    /\ proj.fits <= 1
    /\ pc \in {"mkdir", "routes", "stations", "settings", "done"} => proj.fits = 1
    /\ proj.fits = 1 => proj.fittedOn = AllNodes
    /\ \A x \in xforms : x.fits = 1 /\ x.frame = <<proj.minx, proj.miny>>

C1_Witness ==
    /\ Finished
    /\ Len(routes) = 2
    /\ Cardinality(xforms) = 4
    /\ <<proj.minx, proj.miny>> # <<0, 0>>

\* C3: the points the frame is fitted on are the union, over the route set, of
\* the points of each route's geometry and of its stop sequence, so every
\* stop handed to transform_coords was among the fitted points.
C3_FitCoversGeometryAndStops ==
    /\ proj.fits = 1 => proj.fittedOn = AllNodes \cup AllStops
    /\ \A x \in xforms : Range(routes[x.route].stops) \subseteq proj.fittedOn

C3_Witness ==
    /\ Finished
    /\ \E x \in xforms : x.what = "stops" /\ Len(routes[x.route].stops) = 3
    /\ Cardinality(proj.fittedOn) > 3

\* A map-extract route has a feed route equal in name, endpoints and stop count
Matched(r) == \E fr \in Range(feed.routes) : RefKey(fr) = RefKey(r)

\* C2: in reconciliation mode, a map-extract route without a match in the
\* feed gets no host group and no nodes, stops or schedule file.
C2_UnmatchedRouteDropped ==
    osm.given =>
        /\ \A k \in DOMAIN groups :
               groups[k].id # <<"S">> =>
                   \E r \in Range(osm.routes) : r.name = groups[k].id /\ Matched(r)
        /\ \A k \in DOMAIN writes :
               writes[k].route > 0 => Matched(routes[writes[k].route])

\* C4 as stated: the mode that runs is the one the feed's shape data selects.
C4_ModeSelectedByFeedShapes ==
    modes # {} =>
        /\ ("native" \in modes) <=> feed.hasShapes
        /\ ("osm" \in modes) <=> ~feed.hasShapes

\* C4, amended: at most one geometry mode runs, exactly one in a completed
\* run; it is reconciliation iff a map-extract file is given and native
\* otherwise, and the feed is loaded with shapes iff the mode is native.
C4_ModeSelectedByOsmArgument ==
    /\ Cardinality(modes) <= 1
    /\ Finished => Cardinality(modes) = 1
    /\ modes # {} =>
        /\ ("osm" \in modes) <=> osm.given
        /\ ("native" \in modes) <=> ~osm.given
        /\ gtfs.loaded
        /\ gtfs.withShapes <=> ("native" \in modes)

C4_Witness ==
    /\ Finished
    /\ modes = {"osm"}
    /\ feed.hasShapes
    /\ ~gtfs.withShapes

\* C5: when no route survives (no point is collected), the run fails and
\* nothing is written: no directory, no file, no host group, no setting.
C5_FatalCaseWritesNothing ==
    (routes = <<>> /\ pc \notin {"start", "geometry"}) =>
        /\ pc \in {"schedule", "collect", "fit", "failed"}
        /\ ~dirCreated
        /\ writes = <<>>
        /\ groups = <<>>
        /\ entries = <<>>

C5_Witness ==
    /\ pc = "failed"
    /\ proj.fits = 1
    /\ points = {}
    /\ out_dir_state = "absent"
    /\ osm.given

\* The file of one kind for a route name in a directory, spelled out
FileOf(dir, name, suffix) == dir \o name \o suffix

\* C6: every route written has its own nodes, stops and schedule file, in
\* one directory shared by all routes and named after the route; no two
\* writer calls of a run go to the same file; a completed run wrote one
\* stations file and one settings file.
C6_FilesPerRouteCollisionFree ==
    LET nodesSfx == <<"_", "n", "o", "d", "e", "s", ".", "w", "k", "t">>
        stopsSfx == <<"_", "s", "t", "o", "p", "s", ".", "c", "s", "v">>
        schedSfx == <<"_", "s", "c", "h", "e", "d", "u", "l", "e", ".", "c", "s", "v">>
        \* the directory (with its separator) of the first file written
        dir == SubSeq(writes[1].file, 1,
                      Len(writes[1].file) - Len(routes[1].name) - Len(nodesSfx))
    IN
    /\ \A a, b \in DOMAIN writes : a # b => writes[a].file # writes[b].file
    /\ \A k \in DOMAIN routes :
           (pc \in {"stations", "settings", "done"} \/ (pc = "routes" /\ k < i)) =>
               /\ \E a \in DOMAIN writes :
                      /\ writes[a].route = k /\ writes[a].kind = "nodes"
                      /\ writes[a].file = FileOf(dir, routes[k].name, nodesSfx)
               /\ \E a \in DOMAIN writes :
                      /\ writes[a].route = k /\ writes[a].kind = "stops"
                      /\ writes[a].file = FileOf(dir, routes[k].name, stopsSfx)
               /\ \E a \in DOMAIN writes :
                      /\ writes[a].route = k /\ writes[a].kind = "schedule"
                      /\ writes[a].file = FileOf(dir, routes[k].name, schedSfx)
               /\ Cardinality({a \in DOMAIN writes : writes[a].route = k}) = 3
    /\ Finished =>
           /\ Cardinality({a \in DOMAIN writes : writes[a].kind = "stations"}) = 1
           /\ Cardinality({a \in DOMAIN writes : writes[a].kind = "settings"}) = 1
           /\ Len(writes) = 3 * Len(routes) + 2

C6_Witness ==
    /\ Finished
    /\ Len(routes) = 2
    /\ Len(writes) = 8

\* C7 as stated: the schedule is built before route geometry is resolved.
C7_ScheduleBeforeGeometry == modes # {} => timed

\* C7, amended: the stages run one after another in the order feed load,
\* geometry resolution, schedule and durations, point collection, projection
\* fit, per-route writers, stations writer, settings writer; a stage has
\* completed before the next begins, and no writer runs before the fit.
C7_StageOrder ==
    /\ modes # {} => gtfs.loaded
    /\ timed => modes # {}
    /\ (points # {} \/ proj.fits > 0) => timed
    /\ proj.fits > 0 => points = AllNodes
    /\ (dirCreated \/ writes # <<>> \/ groups # <<>>) => proj.fits = 1 /\ pc # "fit"
    /\ \A a \in DOMAIN writes :
           /\ writes[a].kind = "stations" =>
                  /\ a = 3 * Len(routes) + 1
                  /\ \A b \in 1..(a - 1) : writes[b].route > 0
           /\ writes[a].kind = "settings" => a = 3 * Len(routes) + 2
    /\ entries # <<>> => Len(groups) = Len(routes) + 1

C7_Witness ==
    /\ Finished
    /\ timed
    /\ Len(routes) = 2
    /\ entries # <<>>

\* C8: in reconciliation mode, each route written carries the schedule and
\* the duration table the feed derived for its name, and the projected
\* geometry and stops of the map extract.
C8_ReconciledTimingFromFeed ==
    osm.given =>
        \A a \in DOMAIN writes :
            writes[a].route > 0 =>
                LET r == osm.routes[writes[a].route]
                    inFeed == \E fr \in Range(feed.routes) : fr.name = r.name
                IN  /\ writes[a].kind = "nodes" =>
                        writes[a].coords = transform_coords(proj, r.nodes)
                    /\ writes[a].kind = "stops" =>
                        /\ writes[a].coords = transform_coords(proj, r.stops)
                        /\ writes[a].durations.present
                        /\ inFeed
                        /\ writes[a].durations.val = FeedDurations(FeedRoute(r.name))
                    /\ writes[a].kind = "schedule" =>
                        /\ writes[a].schedule.present
                        /\ inFeed
                        /\ writes[a].schedule.val = FeedSchedule(FeedRoute(r.name))

\* C10: a completed run's settings hold one host group per route, in route
\* order, then the station group S; S has one host per distinct projected
\* stop point; the host address range 0..max has max + 1 equal to the sum
\* of the groups' host counts.
C10_GroupsAndHostRange ==
    Finished =>
        LET n == Len(routes)
            projStops == UNION {Range(transform_coords(proj, routes[k].stops)) : k \in 1..n}
        IN  /\ Len(groups) = n + 1
            /\ \A k \in 1..n : groups[k].id = routes[k].name /\ groups[k].nrofHosts = NR_OF_HOSTS
            /\ \A k \in 1..n : groups[k].id # <<"S">>
            /\ groups[n + 1].id = <<"S">>
            /\ groups[n + 1].nrofHosts = Cardinality(projStops)
            /\ Len(entries) = n + 3
            /\ entries[n + 3][1] = "Events1.hosts"
            /\ entries[n + 3][2] = 0
            /\ entries[n + 3][3] + 1 = n * NR_OF_HOSTS + Cardinality(projStops)
            /\ LET total[k \in 0..(n + 1)] ==
                        IF k = 0 THEN 0 ELSE total[k - 1] + groups[k].nrofHosts
                IN  entries[n + 3][3] + 1 = total[n + 1]

C10_Witness ==
    /\ Finished
    /\ Len(routes) = 2
    /\ Cardinality(stations) < Cardinality(AllStops)
    /\ \E p \in Range(routes[1].stops) : p \in Range(routes[2].stops)

====
